---- MODULE Spec2Model ----
(***************************************************************************)
(* mersge: an interactive three-column merge-conflict resolver             *)
(* (src/src/main.rs).  The model follows main(): the terminal session is   *)
(* entered, the file named on the command line is read and parsed into     *)
(* three row-aligned vectors, and then one event is handled and one frame  *)
(* rendered per loop iteration until 'q' is pressed or the process panics. *)
(*                                                                         *)
(* Text is a sequence of one-character strings, so that prefixes, line     *)
(* splitting and the written file content are computed, not assumed.       *)
(***************************************************************************)
EXTENDS Integers, Sequences, FiniteSets, TLC

VARIABLES
  file,              \* content of the file named by ctx.file_name (on disk)
  readable,          \* whether read_to_string succeeds on it
  overflow_checks,   \* build profile: TRUE = debug (overflow panics), FALSE = release (wraps)
  raw_mode,          \* terminal raw mode enabled
  alternate_screen,  \* terminal is on the alternate screen
  local_changes,     \* ctx.local_changes
  incoming_changes,  \* ctx.incoming_changes
  result,            \* ctx.result
  current_line,      \* ctx.current_line
  pc,                \* position of main()
  panic,             \* "none", or the reason of the panic that ended the process
  last,              \* history: the event handled by the latest handle_events call
  before,            \* history: ctx.result as it was when that call started
  input_lines,       \* history: the lines file.lines() yielded to parse_input_file
  accepted           \* history: the accept keys handled so far on rows of a conflict

vars == <<file, readable, overflow_checks, raw_mode, alternate_screen,
          local_changes, incoming_changes, result, current_line, pc, panic,
          last, before, input_lines, accepted>>

ctx_vars == <<local_changes, incoming_changes, result, current_line>>

----------------------------------------------------------------------------
(* Bounds of the model *)

MaxLines == 3      \* generated input files have at most this many lines
MaxCursor == 2     \* cap of current_line when it runs away (release build, N = 0)

----------------------------------------------------------------------------
(* Text *)

LF == "\n"
CR == "\r"

OPEN_MARK == <<"<", "<", "<", "<", "<", "<", "<">>
MIDDLE_MARK == <<"=", "=", "=", "=", "=", "=", "=">>
CLOSE_MARK == <<">", ">", ">", ">", ">", ">", ">">>

HASH == <<"#">>
DASH == <<"-">>

\* The marker lines as a merge tool writes them, and two content lines.
OpenHead == OPEN_MARK \o <<" ", "H", "E", "A", "D">>
CloseBranch == CLOSE_MARK \o <<" ", "b", "r", "a", "n", "c", "h">>
LineSet == {<<"a">>, <<"b">>, OpenHead, MIDDLE_MARK, CloseBranch}

Eols == {<<LF>>, <<CR, LF>>}

RECURSIVE Join(_, _, _)
Join(ls, eol, final) ==
  IF ls = <<>> THEN <<>>
  ELSE IF Len(ls) = 1 THEN ls[1] \o (IF final THEN eol ELSE <<>>)
  ELSE ls[1] \o eol \o Join(Tail(ls), eol, final)

\* The example of the README-style conflict: a, open, b, middle, c, close, d.
ExampleLines == << <<"a">>, OpenHead, <<"b">>, MIDDLE_MARK, <<"c">>, CloseBranch, <<"d">> >>
ExampleFile == Join(ExampleLines, <<LF>>, TRUE)

LineSeqs == UNION {[1..k -> LineSet] : k \in 0..MaxLines}

\* Lines around the seven-character prefix: six "<", an open marker directly
\* followed by text, a content line.
ShortMarkLines == << <<"<", "<", "<", "<", "<", "<">>, OPEN_MARK \o <<"a">>, <<"b">> >>
ShortMarkFile == Join(ShortMarkLines, <<LF>>, TRUE)

\* Unbalanced markers: a middle marker outside a conflict, an open marker
\* that is never closed.
MalformedLines == << MIDDLE_MARK, <<"a">>, OpenHead, <<"b">> >>
MalformedFile == Join(MalformedLines, <<LF>>, TRUE)

Files == {Join(ls, eol, final) : ls \in LineSeqs, eol \in Eols, final \in BOOLEAN}
           \cup {ExampleFile, ShortMarkFile, MalformedFile}

\* Mutation: the whole line is compared with the marker, not its prefix.
starts_with_exact(line, prefix) == line = prefix

\* str::starts_with
starts_with(line, prefix) ==
  /\ Len(line) >= Len(prefix)
  /\ SubSeq(line, 1, Len(prefix)) = prefix

\* Index of the first LF of a non-empty text, or its length when it has none.
RECURSIVE FirstBreak(_, _)
FirstBreak(text, i) ==
  IF i >= Len(text) THEN Len(text)
  ELSE IF text[i] = LF THEN i
  ELSE FirstBreak(text, i + 1)

\* str::split_inclusive('\n')
RECURSIVE split_inclusive(_)
split_inclusive(text) ==
  IF text = <<>> THEN <<>>
  ELSE LET k == FirstBreak(text, 1)
       IN  <<SubSeq(text, 1, k)>> \o split_inclusive(SubSeq(text, k + 1, Len(text)))

\* What str::lines does to each piece: strip one "\n", then one "\r" before it.
strip_line_ending(piece) ==
  IF piece # <<>> /\ piece[Len(piece)] = LF
    THEN LET l == SubSeq(piece, 1, Len(piece) - 1)
         IN  IF l # <<>> /\ l[Len(l)] = CR THEN SubSeq(l, 1, Len(l) - 1) ELSE l
    ELSE piece

\* str::lines
lines(text) ==
  LET pieces == split_inclusive(text)
  IN  [i \in 1..Len(pieces) |-> strip_line_ending(pieces[i])]

----------------------------------------------------------------------------
(* Data *)

Changes == {"None", "Addition", "Deletion"}
Columns == {"Left", "Middle", "Right"}

Line(value, change) == [value |-> value, change |-> change]

----------------------------------------------------------------------------
(* parse_input_file *)

\* The column a marker line switches to, or "no" for a line that is no marker.
marker_column(line) ==
  IF starts_with(line, OPEN_MARK) THEN "Left"
  ELSE IF starts_with(line, MIDDLE_MARK) THEN "Right"
  ELSE IF starts_with(line, CLOSE_MARK) THEN "Middle"
  ELSE "no"

\* The three pushes of one non-marker line, by the active column.
local_row(column, line) ==
  CASE column = "Left" -> Line(line, "Addition")
    [] column = "Middle" -> Line(line, "None")
    [] column = "Right" -> Line(DASH, "Deletion")

\* Mutation: the result column receives the conflict line itself, not "#".
result_row_copy(column, line) == Line(line, "None")

result_row(column, line) ==
  CASE column = "Left" -> Line(HASH, "None")
    [] column = "Middle" -> Line(line, "None")
    [] column = "Right" -> Line(HASH, "None")

\* Mutation: the placeholder of the incoming column is not marked as a deletion.
incoming_row_unmarked(column, line) ==
  CASE column = "Left" -> Line(DASH, "None")
    [] column = "Middle" -> Line(line, "None")
    [] column = "Right" -> Line(line, "Addition")

incoming_row(column, line) ==
  CASE column = "Left" -> Line(DASH, "Deletion")
    [] column = "Middle" -> Line(line, "None")
    [] column = "Right" -> Line(line, "Addition")

\* Mutation: a marker switches the column only where a well-formed conflict
\* has it: open from Middle, middle from Left, close from Right.
RECURSIVE parse_lines_strict(_, _)
parse_lines_strict(ls, p) ==
  IF ls = <<>> THEN p
  ELSE LET line == Head(ls)
           m == marker_column(line)
           expected == CASE p.column = "Middle" -> "Left"
                         [] p.column = "Left" -> "Right"
                         [] p.column = "Right" -> "Middle"
       IN  IF m # "no"
             THEN parse_lines_strict(Tail(ls),
                    [p EXCEPT !.column = IF m = expected THEN m ELSE p.column])
             ELSE parse_lines_strict(Tail(ls),
                    [column |-> p.column,
                     local_changes |-> Append(p.local_changes, local_row(p.column, line)),
                     result |-> Append(p.result, result_row(p.column, line)),
                     incoming_changes |-> Append(p.incoming_changes, incoming_row(p.column, line))])

\* The loop over file.lines(): p is the parse state after the lines before ls.
RECURSIVE parse_lines(_, _)
parse_lines(ls, p) ==
  IF ls = <<>> THEN p
  ELSE LET line == Head(ls)
           m == marker_column(line)
       IN  IF m # "no"
             THEN parse_lines(Tail(ls), [p EXCEPT !.column = m])
             ELSE parse_lines(Tail(ls),
                    [column |-> p.column,
                     local_changes |-> Append(p.local_changes, local_row(p.column, line)),
                     result |-> Append(p.result, result_row(p.column, line)),
                     incoming_changes |-> Append(p.incoming_changes, incoming_row(p.column, line))])

parse_input_file(text) ==
  parse_lines(lines(text),
              [column |-> "Middle", local_changes |-> <<>>, result |-> <<>>,
               incoming_changes |-> <<>>])

----------------------------------------------------------------------------
(* process_change, write_file, move_down, move_up *)

\* Vec indexing ctx.xs[ctx.current_line] is in bounds (current_line is 0-based).
in_bounds(cur, xs) == cur < Len(xs)

\* Mutation: the two sides are read the wrong way round.
side_line_swapped(column, loc, inc, cur) ==
  IF column = "Left" THEN inc[cur + 1] ELSE loc[cur + 1]

\* The line process_change reads: local for Left, incoming for Right.
side_line(column, loc, inc, cur) ==
  IF column = "Left" THEN loc[cur + 1] ELSE inc[cur + 1]

\* Mutation: an accepted deletion takes the row out of the result vector.
process_change_remove(column, loc, inc, res, cur) ==
  LET line == side_line(column, loc, inc, cur)
  IN  CASE line.change = "Addition" ->
             [res EXCEPT ![cur + 1] = Line(line.value, "Addition")]
        [] line.change = "Deletion" ->
             SubSeq(res, 1, cur) \o SubSeq(res, cur + 2, Len(res))
        [] line.change = "None" -> res

\* Mutation: an accepted deletion also copies the text of the side's line.
process_change_copy(column, loc, inc, res, cur) ==
  LET line == side_line(column, loc, inc, cur)
  IN  CASE line.change = "Addition" ->
             [res EXCEPT ![cur + 1] = Line(line.value, "Addition")]
        [] line.change = "Deletion" ->
             [res EXCEPT ![cur + 1] = Line(line.value, "Deletion")]
        [] line.change = "None" -> res

\* Mutation: accepting a deletion on a row that is deleted restores the row.
process_change_toggle(column, loc, inc, res, cur) ==
  LET line == side_line(column, loc, inc, cur)
  IN  CASE line.change = "Addition" ->
             [res EXCEPT ![cur + 1] = Line(line.value, "Addition")]
        [] line.change = "Deletion" ->
             [res EXCEPT ![cur + 1].change =
                IF res[cur + 1].change = "Deletion" THEN "None" ELSE "Deletion"]
        [] line.change = "None" -> res

\* Mutation: the result is written at index 0, not at the cursor.
process_change_first(column, loc, inc, res, cur) ==
  LET line == side_line(column, loc, inc, cur)
  IN  CASE line.change = "Addition" ->
             [res EXCEPT ![1] = Line(line.value, "Addition")]
        [] line.change = "Deletion" ->
             [res EXCEPT ![1].change = "Deletion"]
        [] line.change = "None" -> res

\* Mutation: an unchanged side line is accepted like an addition.
process_change_none_adds(column, loc, inc, res, cur) ==
  LET line == side_line(column, loc, inc, cur)
  IN  CASE line.change = "Addition" ->
             [res EXCEPT ![cur + 1] = Line(line.value, "Addition")]
        [] line.change = "Deletion" ->
             [res EXCEPT ![cur + 1].change = "Deletion"]
        [] line.change = "None" ->
             [res EXCEPT ![cur + 1] = Line(line.value, "Addition")]

\* Mutation: a row that was resolved once is not resolved again.
process_change_final(column, loc, inc, res, cur) ==
  LET line == side_line(column, loc, inc, cur)
  IN  IF res[cur + 1].change # "None" THEN res
      ELSE CASE line.change = "Addition" ->
                  [res EXCEPT ![cur + 1] = Line(line.value, "Addition")]
             [] line.change = "Deletion" ->
                  [res EXCEPT ![cur + 1].change = "Deletion"]
             [] line.change = "None" -> res

\* ctx.result after process_change(column, ctx), all indexes in bounds.
process_change(column, loc, inc, res, cur) ==
  LET line == side_line(column, loc, inc, cur)
  IN  CASE line.change = "Addition" ->
             [res EXCEPT ![cur + 1] = Line(line.value, "Addition")]
        [] line.change = "Deletion" ->
             [res EXCEPT ![cur + 1].change = "Deletion"]
        [] line.change = "None" -> res

\* Mutation: the rows are written without their line terminator.
RECURSIVE write_content_joined(_, _)
write_content_joined(res, i) ==
  IF i > Len(res) THEN <<>>
  ELSE (IF res[i].change # "Deletion" THEN res[i].value ELSE <<>>)
         \o write_content_joined(res, i + 1)

\* Mutation: deleted rows are written too.
RECURSIVE write_content_all(_, _)
write_content_all(res, i) ==
  IF i > Len(res) THEN <<>>
  ELSE res[i].value \o <<LF>> \o write_content_all(res, i + 1)

\* The content write_file builds from ctx.result.
RECURSIVE write_content(_, _)
write_content(res, i) ==
  IF i > Len(res) THEN <<>>
  ELSE (IF res[i].change # "Deletion" THEN res[i].value \o <<LF>> ELSE <<>>)
         \o write_content(res, i + 1)

write_file(res) == write_content(res, 1)

\* `ctx.result.len() - 1` on usize underflows exactly when the vector is empty.
len_minus_one_overflows(n) == n = 0

\* Mutation: the bound is the length, not the last index.
move_down_off_by_one(cur, n) ==
  IF n = 0 THEN cur + 1
  ELSE IF cur < n THEN cur + 1 ELSE cur

\* ctx.current_line after move_down when the subtraction did not panic.  With
\* n = 0 in a release build the subtraction wraps to usize::MAX, which every
\* current_line of the model is below.
move_down(cur, n) ==
  IF n = 0 THEN cur + 1
  ELSE IF cur < n - 1 THEN cur + 1 ELSE cur

\* Mutation: the guard stops one row early.
move_up_stuck(cur) == IF cur > 1 THEN cur - 1 ELSE cur

move_up(cur) == IF cur > 0 THEN cur - 1 ELSE cur

----------------------------------------------------------------------------
(* The process *)

Keys == {"q", "l", "r", "w", "Down", "Up", "other"}

Init ==
  /\ file \in Files
  /\ readable \in BOOLEAN
  /\ overflow_checks \in BOOLEAN
  /\ raw_mode = FALSE
  /\ alternate_screen = FALSE
  /\ local_changes = <<>>
  /\ incoming_changes = <<>>
  /\ result = <<>>
  /\ current_line = 0
  /\ pc = "main"
  /\ panic = "none"
  /\ last = "none"
  /\ before = <<>>
  /\ input_lines = <<>>
  /\ accepted = {}

\* main, up to the construction of ctx: raw mode, alternate screen.
EnterSession ==
  /\ pc = "main"
  /\ raw_mode' = TRUE
  /\ alternate_screen' = TRUE
  /\ pc' = "parse"
  /\ UNCHANGED <<file, readable, overflow_checks, ctx_vars, panic, last, before,
                 input_lines, accepted>>

\* parse_input_file(&mut ctx): read_to_string(..).expect(..), then the loop.
ParseInputFile ==
  /\ pc = "parse"
  /\ IF readable
       THEN LET p == parse_input_file(file)
            IN  /\ local_changes' = p.local_changes
                /\ incoming_changes' = p.incoming_changes
                /\ result' = p.result
                /\ before' = p.result
                /\ input_lines' = lines(file)
                /\ pc' = "events"
                /\ panic' = panic
       ELSE /\ pc' = "panic"
            /\ panic' = "read"
            /\ UNCHANGED <<local_changes, incoming_changes, result, before, input_lines>>
  /\ UNCHANGED <<file, readable, overflow_checks, raw_mode, alternate_screen,
                 current_line, last, accepted>>

\* What every handle_events call does besides its match arm.
Handled(key) ==
  /\ pc = "events"
  /\ last' = key
  /\ before' = result
  /\ UNCHANGED <<readable, overflow_checks, raw_mode, alternate_screen,
                 local_changes, incoming_changes, input_lines>>

\* KeyCode::Char('q')
Quit ==
  /\ Handled("q")
  /\ pc' = "teardown"
  /\ UNCHANGED <<file, result, current_line, panic, accepted>>

\* KeyCode::Char('l') and KeyCode::Char('r')
Accept(column) ==
  /\ Handled(IF column = "Left" THEN "l" ELSE "r")
  /\ IF in_bounds(current_line, local_changes)
          /\ in_bounds(current_line, incoming_changes)
          /\ in_bounds(current_line, result)
       THEN /\ result' = process_change(column, local_changes, incoming_changes,
                                        result, current_line)
            /\ accepted' =
                 IF side_line(column, local_changes, incoming_changes,
                              current_line).change = "None"
                   THEN accepted
                   ELSE accepted \cup {IF column = "Left" THEN "l" ELSE "r"}
            /\ pc' = "render"
            /\ panic' = panic
       ELSE /\ pc' = "panic"
            /\ panic' = "index"
            /\ UNCHANGED <<result, accepted>>
  /\ UNCHANGED <<file, current_line>>

\* KeyCode::Char('w'), std::fs::write succeeds
WriteFile ==
  /\ Handled("w")
  /\ file' = write_file(result)
  /\ pc' = "render"
  /\ UNCHANGED <<result, current_line, panic, accepted>>

\* KeyCode::Char('w'), std::fs::write fails and unwrap panics
WriteFileFails ==
  /\ Handled("w")
  /\ pc' = "panic"
  /\ panic' = "write"
  /\ UNCHANGED <<file, result, current_line, accepted>>

\* KeyCode::Down
NavigateDown ==
  /\ Handled("Down")
  /\ IF len_minus_one_overflows(Len(result)) /\ overflow_checks
       THEN /\ pc' = "panic"
            /\ panic' = "overflow"
            /\ current_line' = current_line
       ELSE /\ current_line < MaxCursor \/ ~len_minus_one_overflows(Len(result))
            /\ current_line' = move_down(current_line, Len(result))
            /\ pc' = "render"
            /\ panic' = panic
  /\ UNCHANGED <<file, result, accepted>>

\* KeyCode::Up
NavigateUp ==
  /\ Handled("Up")
  /\ current_line' = move_up(current_line)
  /\ pc' = "render"
  /\ UNCHANGED <<file, result, panic, accepted>>

\* any other key, Event::Mouse, Event::Resize
Ignored ==
  /\ Handled("other")
  /\ pc' = "render"
  /\ UNCHANGED <<file, result, current_line, panic, accepted>>

\* render(&mut terminal, &mut ctx): reads ctx, writes the frame only.
Render ==
  /\ pc = "render"
  /\ pc' = "events"
  /\ UNCHANGED <<file, readable, overflow_checks, raw_mode, alternate_screen,
                 ctx_vars, panic, last, before, input_lines, accepted>>

\* main after the loop: disable_raw_mode, LeaveAlternateScreen.
Teardown ==
  /\ pc = "teardown"
  /\ raw_mode' = FALSE
  /\ alternate_screen' = FALSE
  /\ pc' = "exit"
  /\ UNCHANGED <<file, readable, overflow_checks, ctx_vars, panic, last, before,
                 input_lines, accepted>>

Next ==
  \/ EnterSession
  \/ ParseInputFile
  \/ Quit
  \/ Accept("Left")
  \/ Accept("Right")
  \/ WriteFile
  \/ WriteFileFails
  \/ NavigateDown
  \/ NavigateUp
  \/ Ignored
  \/ Render
  \/ Teardown

Spec == Init /\ [][Next]_vars

TypeOK ==
  /\ pc \in {"main", "parse", "events", "render", "teardown", "exit", "panic"}
  /\ panic \in {"none", "read", "index", "write", "overflow"}
  /\ last \in Keys \cup {"none"}
  /\ current_line \in Nat

----------------------------------------------------------------------------
(* Properties *)

N == Len(result)
Parsed == pc \in {"events", "render", "teardown", "exit"}
       \/ (pc = "panic" /\ panic # "read")
AcceptKey(column) == IF column = "Left" THEN "l" ELSE "r"
Sides == {"Left", "Right"}

\* The text of the given lines, each followed by a newline.
Text(ls) == Join(ls, <<LF>>, TRUE)

ExampleParsed == parse_input_file(ExampleFile)
OnExample ==
  /\ Parsed
  /\ local_changes = ExampleParsed.local_changes
  /\ incoming_changes = ExampleParsed.incoming_changes

\* C1: the local, result and incoming sequences have the same length in every
\* state, and once the file is parsed no command changes that length.
C1_Alignment ==
  /\ [](Len(local_changes) = Len(result) /\ Len(result) = Len(incoming_changes))
  /\ [][Parsed => /\ Len(result') = Len(result)
                  /\ Len(local_changes') = Len(local_changes)
                  /\ Len(incoming_changes') = Len(incoming_changes)]_vars

\* An accept took effect on a parsed document of at least two rows.
C1_Witness ==
  /\ Parsed /\ N >= 2
  /\ last \in {"l", "r"}
  /\ result # before

\* C2: on the state parsed from an empty file, Up, Down, accept-local,
\* accept-incoming and write complete without an index or overflow panic,
\* leave the cursor at 0 and the sequences empty, and write writes the empty text.
C2_EmptyInputNoOp ==
  [][(/\ file = <<>> /\ N = 0 /\ current_line = 0
      /\ NavigateUp \/ NavigateDown \/ Accept("Left") \/ Accept("Right") \/ WriteFile)
       => /\ pc' = "render"
          /\ panic' = "none"
          /\ current_line' = 0
          /\ local_changes' = <<>> /\ result' = <<>> /\ incoming_changes' = <<>>
          /\ file' = <<>>]_vars

\* C3: parsing leaves the cursor at 0, a parsed document of N >= 1 rows keeps
\* 0 <= current_line <= N-1, and so no accept on it panics on its index.
C3_CursorRange ==
  /\ [][ParseInputFile => current_line' = 0]_vars
  /\ []((Parsed /\ N >= 1) => (0 <= current_line /\ current_line <= N - 1))
  /\ [][(N >= 1 /\ (Accept("Left") \/ Accept("Right"))) => panic' = "none"]_vars

\* An accept was applied on the last row of a document of at least two rows.
C3_Witness ==
  /\ pc = "render" /\ N >= 2
  /\ last \in {"l", "r"}
  /\ current_line = N - 1

\* C4: Down adds one below the last row and changes nothing on it, Up
\* subtracts one above row 0 and changes nothing on it, and no step moves
\* the cursor by more than one row.
C4_NavigateClamp ==
  [][/\ NavigateDown => /\ current_line < N - 1 => current_line' = current_line + 1
                        /\ current_line = N - 1 => current_line' = current_line
     /\ NavigateUp => /\ current_line > 0 => current_line' = current_line - 1
                      /\ current_line = 0 => current_line' = current_line
     /\ current_line' - current_line \in {-1, 0, 1}]_vars

\* Down was handled and the cursor is on the last of at least three rows.
C4_Witness ==
  /\ pc = "render" /\ N >= 3
  /\ last = "Down"
  /\ current_line = N - 1

\* The line of the chosen side at the cursor, read off the state.
ChosenLine(column) ==
  IF column = "Left" THEN local_changes[current_line + 1]
  ELSE incoming_changes[current_line + 1]

\* C5: an accept whose chosen line is Added makes the result row that text,
\* Added; one whose chosen line is Removed makes the result row Removed and
\* keeps its text; one whose chosen line is Unchanged leaves the row as it is.
C5_AcceptByClassification ==
  [][\A column \in Sides :
       (Accept(column) /\ current_line < N) =>
         LET L == ChosenLine(column)
             old == result[current_line + 1]
             new == result'[current_line + 1]
         IN  /\ L.change = "Addition" => new = [value |-> L.value, change |-> "Addition"]
             /\ L.change = "Deletion" => (new.change = "Deletion" /\ new.value = old.value)
             /\ L.change = "None" => new = old]_vars

\* The incoming deletion was accepted on a row that held accepted local text.
C5_Witness ==
  /\ pc = "render" /\ current_line < N
  /\ last = "r"
  /\ result[current_line + 1].change = "Deletion"
  /\ result[current_line + 1].value = local_changes[current_line + 1].value
  /\ before[current_line + 1].change = "Addition"

\* C6: an accept of the side that the previous command accepted (so at the
\* same cursor) leaves the whole result sequence as the first accept left it.
C6_AcceptIdempotent ==
  [][\A column \in Sides :
       (last = AcceptKey(column) /\ Accept(column)) => result' = result]_vars

\* The latest accept of Local changed nothing on a row that holds the local text.
C6_Witness ==
  /\ pc = "render" /\ current_line < N
  /\ last = "l"
  /\ before = result
  /\ local_changes[current_line + 1].change = "Addition"
  /\ result[current_line + 1] = local_changes[current_line + 1]

\* C7: no accept fails, and an accept that directly follows an accept gives
\* the row at the cursor the classification, and the document the written
\* text, that the second accept alone gives from the state before the first.
C7_LastWriteWins ==
  [][\A s2 \in Sides :
       Accept(s2) =>
         /\ panic' = "none"
         /\ last \in {"l", "r"} =>
              LET alone == process_change(s2, local_changes, incoming_changes,
                                          before, current_line)
              IN  /\ result'[current_line + 1].change = alone[current_line + 1].change
                  /\ write_file(result') = write_file(alone)]_vars

\* Local was accepted at the b row of the example and nothing else was accepted.
AcceptedLocalAtB ==
  /\ OnExample
  /\ last = "l"
  /\ current_line = 1
  /\ before = ExampleParsed.result

\* C8 as stated: on the example, accept-local at the b row, then write,
\* writes a, b, d.
C8_LocalAcceptOriginal ==
  [][(AcceptedLocalAtB /\ WriteFile)
       => file' = Text(<< <<"a">>, <<"b">>, <<"d">> >>)]_vars

\* C8 amended: that write writes a, b, #, d: the row of the incoming line c is
\* still unresolved and is written as the placeholder.
C8_LocalAccept ==
  [][(AcceptedLocalAtB /\ WriteFile)
       => file' = Text(<< <<"a">>, <<"b">>, HASH, <<"d">> >>)]_vars

\* The example was written with only the b row accepted from Local.
C8_Witness ==
  /\ OnExample
  /\ last = "w"
  /\ result = [ExampleParsed.result EXCEPT ![2] = Line(<<"b">>, "Addition")]
  /\ file = write_file(result)

\* Incoming was accepted at the c row of the example and nothing else was accepted.
AcceptedIncomingAtC ==
  /\ OnExample
  /\ last = "r"
  /\ current_line = 2
  /\ before = ExampleParsed.result

\* C9 as stated: on the example, accept-incoming at the c row, then write,
\* writes a, c, d.
C9_IncomingAcceptOriginal ==
  [][(AcceptedIncomingAtC /\ WriteFile)
       => file' = Text(<< <<"a">>, <<"c">>, <<"d">> >>)]_vars

\* C9 amended: that write writes a, #, c, d: the row of the local line b is
\* still unresolved and is written as the placeholder.
C9_IncomingAccept ==
  [][(AcceptedIncomingAtC /\ WriteFile)
       => file' = Text(<< <<"a">>, HASH, <<"c">>, <<"d">> >>)]_vars

\* The example was written with only the c row accepted from Incoming.
C9_Witness ==
  /\ OnExample
  /\ last = "w"
  /\ result = [ExampleParsed.result EXCEPT ![3] = Line(<<"c">>, "Addition")]
  /\ file = write_file(result)

\* A conflict row no accept has resolved: its sides are classified, it is not.
Unresolved(i) == local_changes[i].change # "None" /\ result[i].change = "None"

\* What row i contributes to the written text.
RowText(i) ==
  IF result[i].change = "Deletion" THEN <<>>
  ELSE IF Unresolved(i) THEN <<"#", LF>>
  ELSE result[i].value \o <<LF>>

RECURSIVE RowsText(_)
RowsText(n) == IF n = 0 THEN <<>> ELSE RowsText(n - 1) \o RowText(n)

\* C10: a write writes, in row order, text and newline of the rows that are
\* not Removed, "#" and newline for an unresolved conflict row, and nothing
\* for a Removed row.
C10_Serialize ==
  [][WriteFile => file' = RowsText(N)]_vars

\* A written document with a Removed row and an unresolved conflict row.
C10_Witness ==
  /\ pc = "render" /\ last = "w"
  /\ file = write_file(result)
  /\ \E i \in 1..N : result[i].change = "Deletion"
  /\ \E i \in 1..N : Unresolved(i)

----------------------------------------------------------------------------
(* The input as the specification describes it, read off the input lines *)

\* A line whose first seven characters are seven "<", seven "=" or seven ">".
IsMarker(line) ==
  /\ Len(line) >= 7
  /\ \E c \in {"<", "=", ">"} : \A k \in 1..7 : line[k] = c

\* The region a marker line opens.
MarkerRegion(line) ==
  IF line[1] = "<" THEN "Local"
  ELSE IF line[1] = "=" THEN "Incoming"
  ELSE "Neutral"

Max(S) == CHOOSE m \in S : \A x \in S : x <= m

\* The active region when line j of ls is read: that of the latest marker before it.
RegionOf(ls, j) ==
  LET M == {i \in 1..(j - 1) : IsMarker(ls[i])}
  IN  IF M = {} THEN "Neutral" ELSE MarkerRegion(ls[Max(M)])

\* The indexes of the lines of ls that are no markers, in order.
ContentIdx(ls) ==
  SelectSeq([i \in 1..Len(ls) |-> i], LAMBDA i : ~IsMarker(ls[i]))

ConflictFree == \A i \in 1..Len(input_lines) : ~IsMarker(input_lines[i])

\* C11: when no input line is a marker, every write writes the input lines,
\* in order, each followed by a newline.
C11_RoundTrip ==
  [][(WriteFile /\ ConflictFree)
       => file' = Text(input_lines)]_vars

\* A conflict-free input of two different lines was written.
C11_Witness ==
  /\ pc = "render" /\ last = "w"
  /\ ConflictFree
  /\ Len(input_lines) >= 2
  /\ input_lines[1] # input_lines[2]
  /\ file = Text(input_lines)

\* C12: after parsing, each of the three sequences has as many rows as the
\* input has lines that are no markers (a marker being decided by its first
\* seven characters alone), and row r carries the text of the r-th such line.
C12_ParserLength ==
  Parsed =>
    LET idx == ContentIdx(input_lines)
    IN  /\ N = Cardinality({i \in 1..Len(input_lines) : ~IsMarker(input_lines[i])})
        /\ Len(local_changes) = Len(idx)
        /\ Len(incoming_changes) = Len(idx)
        /\ \A r \in 1..Len(idx) :
             \/ local_changes[r].value = input_lines[idx[r]]
             \/ incoming_changes[r].value = input_lines[idx[r]]

\* The input with a six-character near-marker and a marker followed by text
\* was parsed into two rows.
C12_Witness ==
  /\ Parsed
  /\ input_lines = ShortMarkLines
  /\ N = 2

\* The three rows the specification gives a line read in a region.
RowShape(region, line) ==
  CASE region = "Neutral" ->
         [l |-> [value |-> line, change |-> "None"],
          r |-> [value |-> line, change |-> "None"],
          i |-> [value |-> line, change |-> "None"]]
    [] region = "Local" ->
         [l |-> [value |-> line, change |-> "Addition"],
          r |-> [value |-> <<"#">>, change |-> "None"],
          i |-> [value |-> <<"-">>, change |-> "Deletion"]]
    [] region = "Incoming" ->
         [l |-> [value |-> <<"-">>, change |-> "Deletion"],
          r |-> [value |-> <<"#">>, change |-> "None"],
          i |-> [value |-> line, change |-> "Addition"]]

\* C13: parsing gives every row the shape of the region its line was read in,
\* and in every state a row's local line is Unchanged iff its incoming line
\* is, and otherwise one of the two is Added and the other Removed.
C13_RowClassification ==
  /\ [][ParseInputFile =>
          LET idx == ContentIdx(input_lines')
          IN  \A r \in 1..Len(result') :
                LET shape == RowShape(RegionOf(input_lines', idx[r]),
                                      input_lines'[idx[r]])
                IN  /\ local_changes'[r] = shape.l
                    /\ result'[r] = shape.r
                    /\ incoming_changes'[r] = shape.i]_vars
  /\ [](\A r \in 1..Len(local_changes) :
          /\ local_changes[r].change = "None" <=> incoming_changes[r].change = "None"
          /\ local_changes[r].change # "None" =>
               {local_changes[r].change, incoming_changes[r].change}
                 = {"Addition", "Deletion"})

\* A freshly parsed document with a row of each of the three shapes.
C13_Witness ==
  /\ pc = "events" /\ last = "none"
  /\ \E r \in 1..N : local_changes[r].change = "None"
  /\ \E r \in 1..N : local_changes[r].change = "Addition"
  /\ \E r \in 1..N : local_changes[r].change = "Deletion"

\* C14: navigation leaves the three sequences and the file alone; an accept
\* leaves the cursor, the local and incoming sequences and every result row
\* but the one at the cursor alone; write, ignored events and render leave the
\* document alone.  Local and incoming keep the rows parsing gave them.
C14_Frame ==
  /\ [][/\ (NavigateUp \/ NavigateDown)
             => UNCHANGED <<local_changes, incoming_changes, result, file>>
        /\ \A column \in Sides :
             Accept(column) =>
               /\ UNCHANGED <<current_line, local_changes, incoming_changes, file>>
               /\ Len(result') = Len(result)
               /\ \A i \in 1..N : i # current_line + 1 => result'[i] = result[i]
        /\ (WriteFile \/ WriteFileFails \/ Ignored \/ Render)
             => UNCHANGED ctx_vars]_vars
  /\ [](Parsed =>
          LET idx == ContentIdx(input_lines)
          IN  \A r \in 1..Len(idx) :
                LET shape == RowShape(RegionOf(input_lines, idx[r]), input_lines[idx[r]])
                IN  local_changes[r] = shape.l /\ incoming_changes[r] = shape.i)

\* An accept changed a result row that is not the first.
C14_Witness ==
  /\ pc = "render"
  /\ last \in {"l", "r"}
  /\ current_line >= 1
  /\ result[current_line + 1] # before[current_line + 1]

\* C15: a row whose local and incoming lines are Unchanged has the result row
\* {its input line, Unchanged} in every state, and contributes that line and
\* a newline to the written text.
C15_NeutralRows ==
  Parsed =>
    LET idx == ContentIdx(input_lines)
    IN  \A r \in 1..N :
          (local_changes[r].change = "None" /\ incoming_changes[r].change = "None")
            => /\ result[r] = [value |-> input_lines[idx[r]], change |-> "None"]
               /\ RowText(r) = input_lines[idx[r]] \o <<LF>>

\* An accept was handled on a neutral row after both sides had been accepted
\* on conflict rows.
C15_Witness ==
  /\ pc = "render" /\ current_line < N
  /\ last \in {"l", "r"}
  /\ accepted = {"l", "r"}
  /\ local_changes[current_line + 1].change = "None"

\* C16: while the loop waits for an event, a conflict row under the cursor is
\* one accept away from Added and one accept away from Removed, whatever its
\* state, every neighbouring row is one navigation away, and a render returns
\* to the wait; so no state of a row is terminal, also after a write.
C16_Reversals ==
  /\ (pc = "events" /\ N >= 1) =>
       /\ local_changes[current_line + 1].change # "None" =>
            /\ ENABLED (/\ Accept("Left") \/ Accept("Right")
                        /\ pc' = "render"
                        /\ result'[current_line + 1].change = "Addition")
            /\ ENABLED (/\ Accept("Left") \/ Accept("Right")
                        /\ pc' = "render"
                        /\ result'[current_line + 1].change = "Deletion")
       /\ current_line < N - 1 =>
            ENABLED (NavigateDown /\ pc' = "render" /\ current_line' = current_line + 1)
       /\ current_line > 0 =>
            ENABLED (NavigateUp /\ pc' = "render" /\ current_line' = current_line - 1)
  /\ pc = "render" => ENABLED (Render /\ pc' = "events")

\* After a write, the loop waits with the cursor on a conflict row that was
\* resolved after both sides had been accepted.
C16_Witness ==
  /\ pc = "events" /\ current_line < N
  /\ last = "w"
  /\ accepted = {"l", "r"}
  /\ local_changes[current_line + 1].change # "None"
  /\ result[current_line + 1].change # "None"

\* The region a parsed row shows: which of its sides holds an addition.
RowRegion(r) ==
  IF local_changes[r].change = "Addition" THEN "Local"
  ELSE IF incoming_changes[r].change = "Addition" THEN "Incoming"
  ELSE "Neutral"

\* C17: a readable input is never rejected; every row shows the region of the
\* latest marker before its line, whatever the markers before that one; the
\* lines after an open marker that no marker follows are all Local, and the
\* lines after a middle marker met in the Neutral region are Incoming.
C17_RegionAutomaton ==
  /\ [][(ParseInputFile /\ readable) => (pc' = "events" /\ panic' = "none")]_vars
  /\ [](Parsed =>
          LET ls == input_lines
              idx == ContentIdx(ls)
          IN  /\ \A r \in 1..N : RowRegion(r) = RegionOf(ls, idx[r])
              /\ \A k \in 1..Len(ls) :
                   (/\ IsMarker(ls[k]) /\ MarkerRegion(ls[k]) = "Local"
                    /\ \A j \in (k + 1)..Len(ls) : ~IsMarker(ls[j]))
                     => \A r \in 1..N : idx[r] > k => local_changes[r].change = "Addition"
              /\ \A k \in 1..Len(ls) :
                   (/\ IsMarker(ls[k]) /\ MarkerRegion(ls[k]) = "Incoming"
                    /\ RegionOf(ls, k) = "Neutral")
                     => \A r \in 1..N :
                          (idx[r] > k /\ \A j \in (k + 1)..idx[r] : ~IsMarker(ls[j]))
                            => incoming_changes[r].change = "Addition")

\* The input with a middle marker outside a conflict and an unclosed open
\* marker was parsed: its first row is Incoming, its second Local.
C17_Witness ==
  /\ Parsed
  /\ input_lines = MalformedLines
  /\ N = 2
  /\ RowRegion(1) = "Incoming"
  /\ RowRegion(2) = "Local"

\* The process has ended: main returned or a panic unwound it.
Stopped == pc \in {"exit", "panic"}

\* C18: the process ends only after a quit command, and then with raw mode
\* disabled and the alternate screen left; once quit is handled no further
\* command is.
C18_StopOnlyByQuit ==
  /\ [](Stopped => (last = "q" /\ ~raw_mode /\ ~alternate_screen))
  /\ [][last = "q" => last' = "q"]_vars

\* C19: when the source file cannot be read the process aborts before any
\* command is handled, with the terminal not in raw mode and not on the
\* alternate screen.
C19_UnreadableSource ==
  panic = "read" => (last = "none" /\ ~raw_mode /\ ~alternate_screen)

\* The region whose lines a side's accept keeps.
SideRegion(column) == IF column = "Left" THEN "Local" ELSE "Incoming"

\* Side s, and no other, was accepted on conflict rows, and every conflict
\* row is resolved.
WholeSide(column) ==
  /\ Parsed
  /\ accepted \subseteq {AcceptKey(column)}
  /\ \A r \in 1..N : local_changes[r].change # "None" => result[r].change # "None"

\* The input lines of the Neutral region and of side s's region, in order.
SideLines(column) ==
  LET ls == input_lines
      keep == SelectSeq([i \in 1..Len(ls) |-> i],
                        LAMBDA i : /\ ~IsMarker(ls[i])
                                   /\ RegionOf(ls, i) \in {"Neutral", SideRegion(column)})
  IN  [k \in 1..Len(keep) |-> ls[keep[k]]]

\* C20: when one side was accepted on every conflict row and the other on
\* none, a write writes the Neutral lines and that side's lines, in input
\* order, each with a newline, and nothing else.
C20_WholeSide ==
  [][\A column \in Sides :
       (WholeSide(column) /\ WriteFile) => file' = Text(SideLines(column))]_vars

\* The example was written after Local was accepted on both conflict rows.
C20_Witness ==
  /\ OnExample
  /\ pc = "render" /\ last = "w"
  /\ accepted = {"l"}
  /\ WholeSide("Left")
  /\ file = Text(<< <<"a">>, <<"b">>, <<"d">> >>)

====
